---- MODULE Spec2Model ----
(***************************************************************************)
(* Model of data_translator.py: the DataPart field definition, the         *)
(* FileProcessor that loads a csv filter file into DataParts, and the      *)
(* interactive main loop.                                                  *)
(*                                                                         *)
(* A Python str is modelled as a sequence of one-character strings, so     *)
(* that strip, split, int, lower and slicing are computed character by     *)
(* character.                                                              *)
(***************************************************************************)
EXTENDS Integers, Sequences, FiniteSets, TLC

VARIABLES
    fs,            \* the file system: filename -> [status, content]
    pc,            \* position of the main program
    csv_filename,  \* the filename chosen at the first prompt
    file_data,     \* processor.file_data, the loaded list of DataParts
    raw_data,      \* the last string read at the raw data prompt (stripped)
    output,        \* the lines printed by the last display_items call
    diag,          \* "could not be converted" diagnostics printed so far
    notices,       \* item names of the index order notices printed so far
    warned,        \* number of "file could not be found" messages printed
    part,          \* unit under test: <<>> or <<a DataPart>>
    args,          \* the arguments the DataPart under test was built from
    shown          \* <<>> or <<source, result>> of the last get_data_string

vars == <<fs, pc, csv_filename, file_data, raw_data, output, diag, notices,
          warned, part, args, shown>>

----------------------------------------------------------------------------
(* Bounds of the model.                                                    *)

MaxLines == 3

MaxIdx == 5

MaxSrcLen == 4

----------------------------------------------------------------------------
(* Python str and int operations.                                          *)

\* F applied to the value of x: x is evaluated once, where a LET or an
\* operator argument is evaluated again at each use.
Let(x, F(_)) == CHOOSE r \in {F(v) : v \in {x}} : TRUE

SetMin(S) == CHOOSE x \in S : \A y \in S : x <= y

SetMax(S) == CHOOSE x \in S : \A y \in S : x >= y

\* The characters str.strip() and int() treat as whitespace, among those
\* the model uses.
Whitespace == {" ", "\t", "\n", "\r", "\f"}

DigitSeq == <<"0", "1", "2", "3", "4", "5", "6", "7", "8", "9">>

DigitChars == {DigitSeq[k] : k \in 1..Len(DigitSeq)}

DigitValue(c) == (CHOOSE k \in 1..Len(DigitSeq) : DigitSeq[k] = c) - 1

UpperSeq == <<"A", "B", "C", "D", "E", "F", "G", "H", "I", "J", "K", "L", "M", "N", "O", "P", "Q", "R", "S", "T", "U", "V", "W", "X", "Y", "Z">>

LowerSeq == <<"a", "b", "c", "d", "e", "f", "g", "h", "i", "j", "k", "l", "m", "n", "o", "p", "q", "r", "s", "t", "u", "v", "w", "x", "y", "z">>

\* str.strip(): drop leading and trailing whitespace.
strip(str) ==
    Let(str, LAMBDA s :
        Let({k \in 1..Len(s) : s[k] \notin Whitespace}, LAMBDA keep :
            IF keep = {} THEN <<>> ELSE SubSeq(s, SetMin(keep), SetMax(keep))))

\* str.lower(), on ASCII letters.
lower(str) ==
    Let(str, LAMBDA s :
        [k \in 1..Len(s) |->
            IF \E j \in 1..Len(UpperSeq) : UpperSeq[j] = s[k]
            THEN LowerSeq[CHOOSE j \in 1..Len(UpperSeq) : UpperSeq[j] = s[k]]
            ELSE s[k]])

\* str.split(sep) for a one-character separator: always at least one token.
RECURSIVE split(_, _)
split(str, sep) ==
    Let(str, LAMBDA s :
        Let({k \in 1..Len(s) : s[k] = sep}, LAMBDA at :
            IF at = {} THEN <<s>>
            ELSE <<SubSeq(s, 1, SetMin(at) - 1)>>
                 \o split(SubSeq(s, SetMin(at) + 1, Len(s)), sep)))

\* file.readlines(): the lines of the content, each keeping its "\n"; a
\* last line without "\n" is a line too.
readlines(content) ==
    Let(content, LAMBDA c :
        Let({k \in 1..Len(c) : c[k] = "\n"}, LAMBDA at :
            LET ends(k)  == IF k = 0 THEN 0
                            ELSE IF k > Cardinality(at) THEN Len(c)
                            ELSE CHOOSE p \in at :
                                    Cardinality({q \in at : q <= p}) = k
                count == IF c # <<>> /\ c[Len(c)] # "\n"
                         THEN Cardinality(at) + 1 ELSE Cardinality(at)
            IN  [k \in 1..count |-> SubSeq(c, ends(k - 1) + 1, ends(k))]))

\* The decimal value of a sequence of digits and underscores.
RECURSIVE DecimalValue(_)
DecimalValue(digits) ==
    Let(digits, LAMBDA ds :
        IF ds = <<>> THEN 0
        ELSE IF ds[Len(ds)] = "_" THEN DecimalValue(SubSeq(ds, 1, Len(ds) - 1))
        ELSE 10 * DecimalValue(SubSeq(ds, 1, Len(ds) - 1)) + DigitValue(ds[Len(ds)]))

\* int(str): surrounding whitespace is ignored, then an optional sign and a
\* non-empty run of decimal digits, single underscores allowed between
\* digits.  Anything else raises ValueError.
int(tok) ==
    Let(strip(tok), LAMBDA t :
        LET signed == t # <<>> /\ t[1] \in {"+", "-"}
            body   == IF signed THEN Tail(t) ELSE t
            wellformed ==
                /\ body # <<>>
                /\ \A k \in 1..Len(body) : body[k] \in DigitChars \cup {"_"}
                /\ body[1] # "_"
                /\ body[Len(body)] # "_"
                /\ \A k \in 1..(Len(body) - 1) :
                      ~(body[k] = "_" /\ body[k + 1] = "_")
        IN  IF ~wellformed THEN [exc |-> "ValueError", value |-> 0]
            ELSE [exc |-> "",
                  value |-> IF signed /\ t[1] = "-" THEN 0 - DecimalValue(body)
                            ELSE DecimalValue(body)])

\* data[start:stop] with Python's slice semantics: a negative bound counts
\* from the end, and both bounds are clamped to 0..len(data).
Slice(data, start, stop) ==
    Let(data, LAMBDA d :
        LET n     == Len(d)
            clamp(i) == IF i < 0 THEN (IF i + n < 0 THEN 0 ELSE i + n)
                        ELSE (IF i > n THEN n ELSE i)
            lo    == clamp(start)
            hi    == clamp(stop)
        IN  IF lo >= hi THEN <<>> ELSE SubSeq(d, lo + 1, hi))

----------------------------------------------------------------------------
(* class DataPart                                                          *)

\* Mutant of verify_index_order: the swap without the temporary, so that both
\* indexes end as the old upper_index.
verify_index_order_no_temp(self) ==
    IF self.lower_index > self.upper_index
    THEN [self   |-> [self EXCEPT !.lower_index = self.upper_index],
          notice |-> <<self.item_name>>]
    ELSE [self |-> self, notice |-> <<>>]

\* verify_index_order: returns the DataPart after the call and the notices
\* it printed (the item name, when the indexes were swapped).
verify_index_order(self) ==
    IF self.lower_index > self.upper_index
    THEN [self   |-> [self EXCEPT !.lower_index = self.upper_index,
                                  !.upper_index = self.lower_index],
          notice |-> <<self.item_name>>]
    ELSE [self |-> self, notice |-> <<>>]

\* DataPart.__init__
DataPart(name, lower_bounds, upper_bounds) ==
    Let([item_name   |-> name,
         lower_index |-> lower_bounds,
         upper_index |-> upper_bounds], LAMBDA self : verify_index_order(self))

\* Mutant of get_data_string: the slice stops before upper_index.
get_data_string_exclusive(self, data) ==
    self.item_name \o <<":", " ">>
        \o Slice(data, self.lower_index, self.upper_index)

get_data_string(self, data) ==
    self.item_name \o <<":", " ">>
        \o Slice(data, self.lower_index, self.upper_index + 1)

----------------------------------------------------------------------------
(* class FileProcessor                                                     *)

header_comment ==
       <<";", " ", "B", "a", "l", "l", "o", "o", "n", " ", "R", "a", "w", " ", "D", "a", "t", "a", " ", "T", "r", "a", "n", "s", "l", "a", "t", "o", "r", " ", "v", "0", ".", "1">>
    \o <<"\n", ";", " ", "C", "r", "e", "a", "t", "e", "d", " ", "b", "y", ":", " ", "T", "h", "o", "m", "a", "s", " ", "W", "e", "s", "t", "p", "f", "a", "l">>
    \o <<"\n", ";", " ", "F", "i", "l", "t", "e", "r", " ", "D", "a", "t", "a", " ", "F", "o", "r", "m", "a", "t", ":", " ", "v", "1", ".", "0">>
    \o <<"\n", ";", " ", "C", "o", "m", "m", "e", "n", "t", "e", "d", " ", "l", "i", "n", "e", "s", " ", "a", "r", "e", " ", "d", "e", "n", "o", "t", "e", "d", " ", "w", "i", "t", "h", " ", "a", " ", "'", ";", "'">>
    \o <<"\n", ";">>
    \o <<"\n", ";", " ", "N", "O", "T", "E", ":", " ", "U", "s", "e", " ", "t", "h", "i", "s", " ", "f", "i", "l", "e", " ", "t", "o", " ", "m", "o", "d", "i", "f", "y", " ", "t", "h", "e", " ", "w", "a", "y", " ", "t", "h", "e", " ", "'", "D", "a", "t", "a", " ", "T", "r", "a", "n", "s", "l", "a", "t", "o", "r", "'", " ", "f", "i", "l", "t", "e", "r", "s">>
    \o <<"\n", ";", " ", "t", "h", "e", " ", "g", "i", "v", "e", "n", " ", "d", "a", "t", "a", ".">>
    \o <<"\n", ";">>
    \o <<"\n", ";", " ", "T", "h", "e", " ", "'", "l", "o", "w", "e", "r", "_", "i", "n", "d", "e", "x", "'", " ", "i", "s", " ", "p", "o", "s", "i", "t", "i", "o", "n", " ", "o", "f", " ", "t", "h", "e", " ", "s", "t", "a", "r", "t", "i", "n", "g", " ", "c", "h", "a", "r", "a", "c", "t", "e", "r", " ", "a", "n", "d", " ", "t", "h", "e">>
    \o <<"\n", ";", " ", "'", "u", "p", "p", "e", "r", "_", "i", "n", "d", "e", "x", "'", " ", "i", "s", " ", "t", "h", "e", " ", "p", "o", "s", "i", "t", "i", "o", "n", " ", "o", "f", " ", "t", "h", "e", " ", "l", "a", "s", "t", " ", "c", "h", "a", "r", "a", "c", "t", "e", "r", " ", "(", "i", "n", "c", "l", "u", "s", "i", "v", "e", ")">>
    \o <<"\n", ";">>
    \o <<"\n", ";", " ", "I", "n", "d", "i", "c", "e", "s", " ", "s", "t", "a", "r", "t", " ", "w", "i", "t", "h", " ", "t", "h", "e", " ", "f", "i", "r", "s", "t", " ", "c", "h", "a", "r", "a", "c", "t", "e", "r", " ", "b", "e", "i", "n", "g", " ", "0", " ", "a", "n", "d", " ", "i", "n", "c", "l", "u", "d", "e", " ", "a", "l", "l">>
    \o <<"\n", ";", " ", "c", "h", "a", "r", "a", "c", "t", "e", "r", "s", " ", "(", "i", ".", "e", ".", " ", "i", "n", "c", "l", "u", "d", "e", "s", " ", "s", "p", "a", "c", "e", "s", ")">>
    \o <<"\n", ";">>
    \o <<"\n", ";", " ", "E", "x", ".", " ", "'", "t", "e", "s", "t", " ", "s", "e", "n", "t", "e", "n", "c", "e", "'", " ", "-", ">", " ", "{", "1", ",", " ", "8", "}", " ", "w", "i", "l", "l", " ", "g", "i", "v", "e", " ", "y", "o", "u", " ", "-", ">", " ", "'", "e", "s", "t", " ", "s", "e", "n", "t", "'">>
    \o <<"\n", ";">>
    \o <<"\n", ";", " ", "T", "h", "e", " ", "'", "n", "a", "m", "e", "'", " ", "o", "f", " ", "a", "n", "y", " ", "o", "f", " ", "t", "h", "e", " ", "i", "t", "e", "m", "s", " ", "M", "U", "S", "T", " ", "N", "O", "T", " ", "c", "o", "n", "t", "a", "i", "n", " ", "a", " ", "'", ";", "'", " ", "o", "r", " ", "a", " ", "'", ",", "'">>
    \o <<"\n", ";", " ", "A", "N", "Y", " ", "U", "S", "A", "G", "E", " ", "o", "f", " ", "t", "h", "e", "s", "e", " ", "c", "h", "a", "r", "a", "c", "t", "e", "r", "s", " ", "i", "n", " ", "t", "h", "e", " ", "'", "n", "a", "m", "e", "'", " ", "w", "i", "l", "l", " ", "b", "r", "e", "a", "k", " ", "t", "h", "e", " ", "w", "a", "y">>
    \o <<"\n", ";", " ", "t", "h", "e", " ", "f", "i", "l", "e", " ", "i", "s", " ", "r", "e", "a", "d", ".">>
    \o <<"\n", ";">>
    \o <<"\n", ";", " ", "I", "f", " ", "t", "h", "i", "s", " ", "f", "i", "l", "e", " ", "i", "s", " ", "e", "v", "e", "r", " ", "d", "e", "l", "e", "t", "e", "d", ",", " ", "a", " ", "n", "e", "w", " ", "o", "n", "e", " ", "w", "i", "l", "l", " ", "a", "u", "t", "o", "m", "a", "t", "i", "c", "a", "l", "l", "y", " ", "b", "e", " ", "c", "r", "e", "a", "t", "e", "d">>
    \o <<"\n", ";", " ", "w", "i", "t", "h", " ", "a", "l", "l", " ", "o", "f", " ", "t", "h", "e", " ", "d", "e", "f", "a", "u", "l", "t", " ", "v", "a", "l", "u", "e", "s", ".">>
    \o <<"\n", ";">>
    \o <<"\n", ";", " ", "n", "a", "m", "e", ",", "l", "o", "w", "e", "r", "_", "i", "n", "d", "e", "x", ",", "u", "p", "p", "e", "r", "_", "i", "n", "d", "e", "x">>

default_filter ==
       <<"\n">>
    \o <<"\n", "P", "A", "C", "K", "E", "T", " ", "S", "E", "N", "D", " ", "T", "I", "M", "E", ",", " ", "1", ",", " ", "7">>
    \o <<"\n", "|", " ", "-", " ", "h", "o", "u", "r", ",", " ", "1", ",", " ", "2">>
    \o <<"\n", "|", " ", "-", " ", "m", "i", "n", "u", "t", "e", ",", " ", "3", ",", " ", "4">>
    \o <<"\n", "|", " ", "-", " ", "s", "e", "c", "o", "n", "d", ",", " ", "5", ",", " ", "6">>
    \o <<"\n", "L", "A", "T", "I", "T", "U", "D", "E", " ", "C", "O", "O", "R", "D", "I", "N", "A", "T", "E", "S", ",", " ", "8", ",", " ", "1", "5">>
    \o <<"\n", "L", "O", "N", "G", "I", "T", "U", "D", "E", " ", "C", "O", "O", "R", "D", "I", "N", "A", "T", "E", "S", ",", " ", "1", "7", ",", " ", "2", "5">>
    \o <<"\n", "B", "A", "L", "L", "O", "O", "N", " ", "I", "N", "D", "I", "C", "A", "T", "O", "R", ",", " ", "2", "6", ",", " ", "2", "6">>
    \o <<"\n", "C", "O", "U", "R", "S", "E", " ", "(", "d", "e", "g", "r", "e", "e", "s", ")", ",", " ", "2", "7", ",", " ", "2", "9">>
    \o <<"\n", "S", "P", "E", "E", "D", " ", "(", "n", "a", "u", "t", "i", "c", "a", "l", " ", "m", "i", "l", "e", "s", ")", ",", " ", "3", "1", ",", " ", "3", "3">>
    \o <<"\n", "A", "L", "T", "I", "T", "U", "D", "E", " ", "(", "f", "e", "e", "t", ")", ",", " ", "3", "7", ",", " ", "4", "2">>
    \o <<"\n", "T", "E", "L", "E", "M", "E", "T", "R", "Y", " ", "C", "O", "U", "N", "T", "E", "R", ",", " ", "4", "4", ",", " ", "4", "9">>
    \o <<"\n", "T", "E", "M", "P", "E", "R", "A", "T", "U", "R", "E", " ", "(", "c", "e", "l", "s", "i", "u", "s", ")", ",", " ", "5", "3", ",", " ", "5", "6">>
    \o <<"\n", "P", "R", "E", "S", "S", "U", "R", "E", " ", "(", "m", "i", "l", "l", "i", "b", "a", "r", "s", ")", ",", " ", "6", "0", ",", " ", "6", "5">>
    \o <<"\n", "B", "A", "T", "T", "E", "R", "Y", " ", "V", "O", "L", "T", "A", "G", "E", " ", "(", "v", "o", "l", "t", "s", ")", ",", " ", "7", "1", ",", " ", "7", "4">>
    \o <<"\n", "V", "A", "L", "I", "D", " ", "S", "A", "T", "E", "L", "L", "I", "T", "E", "S", ",", " ", "7", "7", ",", " ", "7", "8">>
    \o <<"\n", "C", "O", "M", "M", "E", "N", "T", ",", " ", "8", "1", ",", " ", "9", "9", "9">>

\* A path of the file system is in one of four states:
\*   "absent"      nothing is at the path and a file can be created there;
\*   "nocreate"    no regular file is at the path and open(path, 'w') fails
\*                 (a directory, no permission, an invalid name);
\*   "file"        a regular file that can be opened and read;
\*   "unreadable"  a regular file that open(path) fails on.

\* Mutant of isfile: the test is inverted.
isfile_inverted(f, filename) == f[filename].status \notin {"file", "unreadable"}

\* os.path.isfile(filename): a regular file is at the path.
isfile(f, filename) == f[filename].status \in {"file", "unreadable"}

\* Mutant of create_default_file: the default data lines are not written.
create_default_file_header_only(f, filename) ==
    IF f[filename].status = "nocreate"
    THEN [exc |-> "OSError", fs |-> f]
    ELSE [exc |-> "",
          fs  |-> [f EXCEPT ![filename] =
                     [status  |-> IF f[filename].status = "absent"
                                  THEN "file" ELSE f[filename].status,
                      content |-> header_comment]]]

\* create_default_file: open(filename, 'w') raises OSError when the file
\* cannot be created; otherwise the file holds the two writes.
create_default_file(f, filename) ==
    IF f[filename].status = "nocreate"
    THEN [exc |-> "OSError", fs |-> f]
    ELSE [exc |-> "",
          fs  |-> [f EXCEPT ![filename] =
                     [status  |-> IF f[filename].status = "absent"
                                  THEN "file" ELSE f[filename].status,
                      content |-> header_comment \o default_filter]]]

\* The list comprehension and filter of lines 122-123: the stripped lines
\* that are neither blank nor comments.
filter_lines(lines) ==
    Let(lines, LAMBDA ls :
        Let([k \in 1..Len(ls) |->
                IF strip(ls[k]) # <<>> /\ strip(ls[k])[1] # ";"
                THEN <<strip(ls[k])>> ELSE <<>>], LAMBDA line_data :
            Let(SelectSeq(line_data, LAMBDA x : x # <<>>), LAMBDA kept :
                [k \in 1..Len(kept) |-> kept[k][1]])))

\* The body of the try statement for one line: the DataPart appended (none
\* when an exception was caught), the exception caught and the notices
\* printed by the DataPart constructor.
convert_line(i) ==
    Let(split(i, ","), LAMBDA line_parts :
        LET none(e) == [exc |-> e, parts |-> <<>>, notice |-> <<>>]
        IN  IF Len(line_parts) < 2 THEN none("IndexError")
            ELSE IF int(line_parts[2]).exc # "" THEN none("ValueError")
            ELSE IF Len(line_parts) < 3 THEN none("IndexError")
            ELSE IF int(line_parts[3]).exc # "" THEN none("ValueError")
            ELSE Let(DataPart(line_parts[1], int(line_parts[2]).value,
                              int(line_parts[3]).value), LAMBDA dp :
                    [exc |-> "", parts |-> <<dp.self>>, notice |-> dp.notice]))

\* Mutant of convert_lines: the loop ends at the first line that raises.
RECURSIVE convert_lines_abort(_, _)
convert_lines_abort(line_data, acc) ==
    Let(<<line_data, acc>>, LAMBDA v :
        IF v[1] = <<>> THEN v[2]
        ELSE Let(convert_line(Head(v[1])), LAMBDA r :
                IF r.exc # ""
                THEN [v[2] EXCEPT !.diag =
                        Append(v[2].diag, [line |-> Head(v[1]), exc |-> r.exc])]
                ELSE convert_lines_abort(Tail(v[1]),
                        [data_part_data |-> v[2].data_part_data \o r.parts,
                         diag    |-> v[2].diag,
                         notices |-> v[2].notices \o r.notice])))

\* The for loop of lines 130-139 over line_data, from an accumulator of the
\* list built and of what was printed.
RECURSIVE convert_lines(_, _)
convert_lines(line_data, acc) ==
    Let(<<line_data, acc>>, LAMBDA v :
        IF v[1] = <<>> THEN v[2]
        ELSE Let(convert_line(Head(v[1])), LAMBDA r :
                convert_lines(Tail(v[1]),
                    [data_part_data |-> v[2].data_part_data \o r.parts,
                     diag    |-> IF r.exc = "" THEN v[2].diag
                                 ELSE Append(v[2].diag,
                                        [line |-> Head(v[1]), exc |-> r.exc]),
                     notices |-> v[2].notices \o r.notice])))

\* load_to_data_parts: the exception raised (if any), the file system after
\* the call, the list returned and what was printed.
load_to_data_parts(f, filename) ==
    LET missing == ~isfile(f, filename)
        failed(g) == [exc |-> "OSError", fs |-> g, data_part_data |-> <<>>,
                      diag |-> <<>>, notices |-> <<>>,
                      warned |-> IF missing THEN 1 ELSE 0]
    IN  Let(IF missing THEN create_default_file(f, filename)
            ELSE [exc |-> "", fs |-> f], LAMBDA created :
            IF created.exc # "" THEN failed(created.fs)
            ELSE IF created.fs[filename].status # "file" THEN failed(created.fs)
            ELSE Let(readlines(created.fs[filename].content), LAMBDA lines :
                 Let(filter_lines(lines), LAMBDA line_data :
                 Let(convert_lines(line_data,
                        [data_part_data |-> <<>>, diag |-> <<>>, notices |-> <<>>]),
                     LAMBDA r :
                        [exc |-> "", fs |-> created.fs,
                         data_part_data |-> r.data_part_data,
                         diag |-> r.diag, notices |-> r.notices,
                         warned |-> IF missing THEN 1 ELSE 0]))))

----------------------------------------------------------------------------
(* class Operator                                                          *)

\* Mutant of display_items: the DataParts are popped off the list as they
\* are printed.
display_items_popping(data_parts, data) ==
    [printed |-> <<<<"\n", "=", "=", "=", "=", "=", "=", "=", "=", "=", "=", "=", "=", "=", "=", "=", "=", "=", "=", "=", "=", "=", "=", "=", "=", "=", "=", "=", "=", "=", "=", "=", "=", "=", "=", "=", "=">>>>
                 \o [k \in 1..Len(data_parts) |->
                        get_data_string(data_parts[k], data)]
                 \o <<<<"=", "=", "=", "=", "=", "=", "=", "=", "=", "=", "=", "=", "=", "=", "=", "=", "=", "=", "=", "=", "=", "=", "=", "=", "=", "=", "=", "=", "=", "=", "=", "=", "=", "=", "=", "=", "\n">>>>,
     data_parts |-> <<>>]

\* display_items: the lines printed, and the list as the call leaves it
\* (the caller's list is passed by reference).
display_items(data_parts, data) ==
    [printed |-> <<<<"\n", "=", "=", "=", "=", "=", "=", "=", "=", "=", "=", "=", "=", "=", "=", "=", "=", "=", "=", "=", "=", "=", "=", "=", "=", "=", "=", "=", "=", "=", "=", "=", "=", "=", "=", "=", "=">>>>
                 \o [k \in 1..Len(data_parts) |->
                        get_data_string(data_parts[k], data)]
                 \o <<<<"=", "=", "=", "=", "=", "=", "=", "=", "=", "=", "=", "=", "=", "=", "=", "=", "=", "=", "=", "=", "=", "=", "=", "=", "=", "=", "=", "=", "=", "=", "=", "=", "=", "=", "=", "=", "\n">>>>,
     data_parts |-> data_parts]

----------------------------------------------------------------------------
(* The main program                                                        *)

default_csv_filename == <<"f", "i", "l", "t", "e", "r", "_", "d", "a", "t", "a", ".", "c", "s", "v">>

\* Mutant of is_quit: only 'q' ends the session.
is_quit_q_only(current_input) == current_input = <<"q">>

\* The test of line 253 on the stripped, lower-cased input.
is_quit(current_input) ==
    \/ current_input = <<"q">>
    \/ current_input = <<"q", "u", "i", "t">>
    \/ current_input = <<"e", "x", "i", "t">>

----------------------------------------------------------------------------
(* The environment: files on disk and what the user types.                 *)

CustomName == <<"m", "y", ".", "c", "s", "v">>

Filenames == {default_csv_filename, CustomName}

\* What the user types at the filename prompt.
FilenameInputs == {<<>>, <<" ", " ">>, <<"m", "y", ".", "c", "s", "v">>, <<" ", "m", "y", ".", "c", "s", "v", "\t">>}

\* Lines a user may have put in the csv file.
LinePool ==
    { <<"h", "o", "u", "r", ",", "1", ",", "2">>,
      <<"X", ",", " ", "5", " ", ",", " ", "1">>,
      <<"b", "a", "d", ",", "1">>,
      <<"a", ",", "1", ",", "2", ",", "3">>,
      <<"Y", " ", ",", "0", ",", "3">>,
      <<"n", ",", "-", "3", ",", "-", "1">>,
      <<"c", ",", "x", ",", "2">>,
      <<"l", "o", "n", "e">>,
      <<" ", " ", "z", ",", "+", "2", ",", "0", "2", " ">>,
      <<";", " ", "n", "o", "t", "e">>,
      <<" ", " ", ";", "k", ",", "1", ",", "2">>,
      <<>> }

RECURSIVE JoinLines(_)
JoinLines(lines) ==
    Let(lines, LAMBDA ls :
        IF ls = <<>> THEN <<>> ELSE Head(ls) \o <<"\n">> \o JoinLines(Tail(ls)))

\* Every file of at most n lines of the pool.
Contents(n) ==
    {JoinLines(ls) : ls \in UNION {[1..k -> LinePool] : k \in 0..n}}

\* The files of the interactive sessions explored.
SessionConfigs ==
    { <<"h", "o", "u", "r", ",", "1", ",", "2", "\n">>,
      <<";", " ", "f", "i", "e", "l", "d", "s", "\n", "\n", "X", ",", " ", "5", " ", ",", " ", "1", "\n", "b", "a", "d", ",", "1", "\n", "h", "o", "u", "r", ",", "1", ",", "2", "\n", "n", ",", "-", "3", ",", "-", "1">>,
      <<";", " ", "n", "o", "t", "h", "i", "n", "g", " ", "b", "u", "t", " ", "a", " ", "c", "o", "m", "m", "e", "n", "t", "\n">> }

NoFile(status) == [status |-> status, content |-> <<>>]

File(status, content) == [status |-> status, content |-> content]

\* The raw data strings the user types at the main prompt.
RawInputs ==
    { <<"q">>, <<"Q">>, <<" ", " ", "q", " ", " ">>, <<"q", "u", "i", "t">>, <<"Q", "U", "I", "T">>, <<" ", "Q", "u", "i", "t", "\t">>, <<"e", "x", "i", "t">>,
      <<"e", "X", "i", "T", " ">>, <<>>, <<" ", " ", " ">>, <<"q", "u">>, <<"q", "u", "i", "t", "!">>, <<"q", " ", "q">>, <<"e", "x", "i", "t", "s">>,
      <<"a", "b", "c", "d", "e", "f", "g", "h">>, <<"/", "2", "3", "1", "6", "4", "1", "h", "4", "2", "5", "9", ".", "9", "1", "N">>, <<" ", "a", "b", " ">> }

Names == {<<"X">>, <<"h", "o", "u", "r">>}

IndexRange == (0 - MaxIdx)..MaxIdx

Alphabet == <<"a", "b", "c", "d", "e", "f", "g", "h">>

\* The sources handed to get_data_string: the prefixes of Alphabet.
Sources == {SubSeq(Alphabet, 1, n) : n \in 0..MaxSrcLen}

----------------------------------------------------------------------------
(* Initial states                                                          *)

TypeOK ==
    /\ pc \in {"start", "construct", "fallback", "prompt", "display", "done",
               "crashed", "unit"}
    /\ DOMAIN fs = Filenames
    /\ warned \in 0..2

Idle ==
    /\ file_data = <<>>
    /\ raw_data = <<>>
    /\ output = <<>>
    /\ diag = <<>>
    /\ notices = <<>>
    /\ warned = 0
    /\ part = <<>>
    /\ args = <<>>
    /\ shown = <<>>

\* The program starts at the filename prompt, with either file in any state.
Init ==
    /\ pc = "start"
    /\ csv_filename = <<>>
    /\ \E c \in {NoFile("absent"), NoFile("nocreate"), NoFile("unreadable")}
                \cup {File("file", x) : x \in SessionConfigs},
          d \in {NoFile("absent"), NoFile("nocreate"), NoFile("unreadable"),
                 File("file", header_comment \o default_filter)} :
          fs = [n \in Filenames |-> IF n = CustomName THEN c ELSE d]
    /\ Idle

\* FileProcessor(CustomName) is about to be constructed on a file of the pool.
InitLoad ==
    /\ pc = "construct"
    /\ csv_filename = CustomName
    /\ \E c \in {NoFile("absent")} \cup {File("file", x) : x \in Contents(MaxLines)} :
          fs = [n \in Filenames |-> IF n = CustomName THEN c ELSE NoFile("absent")]
    /\ Idle

\* No DataPart has been constructed yet.
InitPart ==
    /\ pc = "unit"
    /\ csv_filename = <<>>
    /\ fs = [n \in Filenames |-> NoFile("absent")]
    /\ Idle

----------------------------------------------------------------------------
(* Actions                                                                 *)

\* Lines 232-233: the filename prompt.
Start(inp) ==
    /\ pc = "start"
    /\ LET input_filename == strip(inp)
       IN  csv_filename' = IF input_filename # <<>> THEN input_filename
                           ELSE default_csv_filename
    /\ pc' = "construct"
    /\ UNCHANGED <<fs, file_data, raw_data, output, diag, notices, warned,
                   part, args, shown>>

\* FileProcessor.__init__ on filename: load_to_data_parts and what it prints;
\* an OSError leaves processor unassigned.
FileProcessor(filename, okpc, errpc) ==
    \E r \in {load_to_data_parts(fs, filename)} :
        /\ fs' = r.fs
        /\ warned' = warned + r.warned
        /\ diag' = diag \o r.diag
        /\ notices' = notices \o r.notices
        /\ file_data' = IF r.exc = "" THEN r.data_part_data ELSE file_data
        /\ pc' = IF r.exc = "" THEN okpc ELSE errpc

\* Lines 239-241: processor = FileProcessor(csv_filename), OSError caught.
Construct ==
    /\ pc = "construct"
    /\ FileProcessor(csv_filename, "prompt", "fallback")
    /\ UNCHANGED <<csv_filename, raw_data, output, part, args, shown>>

\* Lines 242-243: the except branch, FileProcessor(default_csv_filename);
\* an OSError here is not caught and ends the program.
Fallback ==
    /\ pc = "fallback"
    /\ FileProcessor(default_csv_filename, "prompt", "crashed")
    /\ UNCHANGED <<csv_filename, raw_data, output, part, args, shown>>

\* Lines 250-254: read the raw data string and test it for a quit command.
ReadInput(inp) ==
    /\ pc = "prompt"
    /\ raw_data' = strip(inp)
    /\ LET current_input == lower(strip(raw_data'))
       IN  pc' = IF is_quit(current_input) THEN "done" ELSE "display"
    /\ UNCHANGED <<fs, csv_filename, file_data, output, diag, notices, warned,
                   part, args, shown>>

\* Line 256: Operator.display_items(processor.file_data, raw_data).
DisplayItems ==
    /\ pc = "display"
    /\ \E r \in {display_items(file_data, raw_data)} :
           /\ output' = r.printed
           /\ file_data' = r.data_parts
    /\ pc' = "prompt"
    /\ UNCHANGED <<fs, csv_filename, raw_data, diag, notices, warned, part,
                   args, shown>>

\* Unit step: construct DataPart(name, a, b).
NewDataPart(name, a, b) ==
    /\ pc = "unit"
    /\ \E r \in {DataPart(name, a, b)} :
           /\ part' = <<r.self>>
           /\ notices' = r.notice
    /\ args' = <<name, a, b>>
    /\ shown' = <<>>
    /\ UNCHANGED <<fs, pc, csv_filename, file_data, raw_data, output, diag,
                   warned>>

\* Unit step: call get_data_string(data) on the DataPart constructed.
GetDataString(data) ==
    /\ pc = "unit"
    /\ part # <<>>
    /\ shown' = <<data, get_data_string(part[1], data)>>
    /\ UNCHANGED <<fs, pc, csv_filename, file_data, raw_data, output, diag,
                   notices, warned, part, args>>

----------------------------------------------------------------------------
(* Specifications                                                          *)

Next ==
    \/ \E inp \in FilenameInputs : Start(inp)
    \/ Construct
    \/ Fallback
    \/ \E inp \in RawInputs : ReadInput(inp)
    \/ DisplayItems

\* The whole program.
Spec == Init /\ [][Next]_vars

NextLoad == Construct

\* One load of a csv file.
SpecLoad == InitLoad /\ [][NextLoad]_vars

NextPart ==
    \/ \E name \in Names, a \in IndexRange, b \in IndexRange : NewDataPart(name, a, b)
    \/ \E data \in Sources : GetDataString(data)

\* A DataPart on its own.
SpecPart == InitPart /\ [][NextPart]_vars

----------------------------------------------------------------------------
(* Properties                                                              *)

\* The data lines of the file that was loaded: its stripped lines that are
\* neither blank nor comments.
LoadedLines == filter_lines(readlines(fs[csv_filename].content))

\* A load of csv_filename has completed.
Loaded == pc = "prompt" /\ isfile(fs, csv_filename)

\* The line converts to a DataPart in the code.
Converts(line) == convert_line(line).exc = ""

\* The line has exactly three comma-separated tokens, the second and the
\* third of which parse as integers.
ThreeTokens(line) ==
    LET t == split(line, ",")
    IN  Len(t) = 3 /\ int(t[2]).exc = "" /\ int(t[3]).exc = ""

Count(s, P(_)) == Len(SelectSeq(s, P))

\* C1: a data line yields a DataPart if and only if it has exactly three
\* tokens with integer second and third tokens; every other data line yields
\* one diagnostic, so N valid and M invalid data lines give N DataParts and M
\* diagnostics.  (Fails: a line of more than three tokens is converted.)
C1_ExactlyThreeTokens ==
    Loaded =>
        /\ \A k \in 1..Len(LoadedLines) :
              Converts(LoadedLines[k]) <=> ThreeTokens(LoadedLines[k])
        /\ Len(file_data) = Count(LoadedLines, ThreeTokens)
        /\ Len(diag) = Len(LoadedLines) - Count(LoadedLines, ThreeTokens)

\* The DataParts the lines convert to, line by line, in line order.
RECURSIVE PartsInOrder(_)
PartsInOrder(lines) ==
    Let(lines, LAMBDA ls :
        IF ls = <<>> THEN <<>>
        ELSE convert_line(Head(ls)).parts \o PartsInOrder(Tail(ls)))

\* C2: a malformed line never aborts the load: every data line is processed
\* and yields either one DataPart or one diagnostic, and the list returned
\* holds the DataParts in the order of their lines.
C2_LoadContinuesInOrder ==
    Loaded =>
        /\ Len(file_data) + Len(diag) = Len(LoadedLines)
        /\ file_data = PartsInOrder(LoadedLines)
        /\ [k \in 1..Len(diag) |-> diag[k].line]
              = SelectSeq(LoadedLines, LAMBDA l : ~Converts(l))

\* A malformed line between two lines that were converted.
C2_Witness ==
    /\ Loaded
    /\ Len(LoadedLines) = 3
    /\ Converts(LoadedLines[1])
    /\ ~Converts(LoadedLines[2])
    /\ Converts(LoadedLines[3])
    /\ Len(file_data) = 2
    /\ Len(diag) = 1

\* C3: DataPart(name, a, b) ends with lower_index = min(a, b) and
\* upper_index = max(a, b); a notice is printed exactly when a > b, and
\* lower_index <= upper_index afterwards.
C3_IndexOrder ==
    part # <<>> =>
        LET a == args[2]
            b == args[3]
        IN  /\ part[1].item_name = args[1]
            /\ part[1].lower_index = (IF a <= b THEN a ELSE b)
            /\ part[1].upper_index = (IF a <= b THEN b ELSE a)
            /\ part[1].lower_index <= part[1].upper_index
            /\ (a > b) => notices = <<args[1]>>
            /\ (a <= b) => notices = <<>>

\* A DataPart constructed with its indexes inverted.
C3_Witness ==
    /\ part # <<>>
    /\ args[2] > args[3]
    /\ part[1].lower_index = args[3]
    /\ notices # <<>>

\* Every DataPart of the loaded list has its indexes in order, in every
\* state of a session.
LoadedIndexOrder ==
    \A k \in 1..Len(file_data) :
        file_data[k].lower_index <= file_data[k].upper_index

\* The characters of s at the 0-based positions lo..hi that exist in s.
CharsAt(s, lo, hi) ==
    LET last == IF hi >= Len(s) THEN Len(s) - 1 ELSE hi
    IN  [k \in 1..(IF last < lo THEN 0 ELSE last - lo + 1) |-> s[lo + k]]

\* C4: with 0 <= lower_index <= upper_index, get_data_string(s) is
\* name + ": " + the characters of s at positions lower_index..upper_index,
\* clipped to the positions s has.
C4_ClippedSubstring ==
    (shown # <<>> /\ 0 <= part[1].lower_index
                  /\ part[1].lower_index <= part[1].upper_index) =>
        LET s  == shown[1]
            lo == part[1].lower_index
            hi == part[1].upper_index
        IN  /\ shown[2] = part[1].item_name \o <<":", " ">> \o CharsAt(s, lo, hi)
            /\ hi >= Len(s) /\ lo < Len(s) =>
                  shown[2] = part[1].item_name \o <<":", " ">>
                                 \o SubSeq(s, lo + 1, Len(s))
            /\ lo >= Len(s) => shown[2] = part[1].item_name \o <<":", " ">>

\* A range that starts inside the source and ends beyond it.
C4_Witness ==
    /\ shown # <<>>
    /\ 0 < part[1].lower_index
    /\ part[1].lower_index < Len(shown[1])
    /\ part[1].upper_index >= Len(shown[1])
    /\ Len(shown[2]) > Len(part[1].item_name) + 2

\* C5: every DataPart of the loaded list has non-negative indexes.  (Fails:
\* negative index tokens are converted as they are.)
C5_IndexesNonNegative ==
    \A k \in 1..Len(file_data) :
        file_data[k].lower_index >= 0 /\ file_data[k].upper_index >= 0

\* The fields of the default file, lines 180-195.
DefaultFields ==
    <<
      <<<<"P", "A", "C", "K", "E", "T", " ", "S", "E", "N", "D", " ", "T", "I", "M", "E">>, 1, 7>>,
      <<<<"|", " ", "-", " ", "h", "o", "u", "r">>, 1, 2>>,
      <<<<"|", " ", "-", " ", "m", "i", "n", "u", "t", "e">>, 3, 4>>,
      <<<<"|", " ", "-", " ", "s", "e", "c", "o", "n", "d">>, 5, 6>>,
      <<<<"L", "A", "T", "I", "T", "U", "D", "E", " ", "C", "O", "O", "R", "D", "I", "N", "A", "T", "E", "S">>, 8, 15>>,
      <<<<"L", "O", "N", "G", "I", "T", "U", "D", "E", " ", "C", "O", "O", "R", "D", "I", "N", "A", "T", "E", "S">>, 17, 25>>,
      <<<<"B", "A", "L", "L", "O", "O", "N", " ", "I", "N", "D", "I", "C", "A", "T", "O", "R">>, 26, 26>>,
      <<<<"C", "O", "U", "R", "S", "E", " ", "(", "d", "e", "g", "r", "e", "e", "s", ")">>, 27, 29>>,
      <<<<"S", "P", "E", "E", "D", " ", "(", "n", "a", "u", "t", "i", "c", "a", "l", " ", "m", "i", "l", "e", "s", ")">>, 31, 33>>,
      <<<<"A", "L", "T", "I", "T", "U", "D", "E", " ", "(", "f", "e", "e", "t", ")">>, 37, 42>>,
      <<<<"T", "E", "L", "E", "M", "E", "T", "R", "Y", " ", "C", "O", "U", "N", "T", "E", "R">>, 44, 49>>,
      <<<<"T", "E", "M", "P", "E", "R", "A", "T", "U", "R", "E", " ", "(", "c", "e", "l", "s", "i", "u", "s", ")">>, 53, 56>>,
      <<<<"P", "R", "E", "S", "S", "U", "R", "E", " ", "(", "m", "i", "l", "l", "i", "b", "a", "r", "s", ")">>, 60, 65>>,
      <<<<"B", "A", "T", "T", "E", "R", "Y", " ", "V", "O", "L", "T", "A", "G", "E", " ", "(", "v", "o", "l", "t", "s", ")">>, 71, 74>>,
      <<<<"V", "A", "L", "I", "D", " ", "S", "A", "T", "E", "L", "L", "I", "T", "E", "S">>, 77, 78>>,
      <<<<"C", "O", "M", "M", "E", "N", "T">>, 81, 999>>
    >>

IsComment(line) == strip(line) # <<>> /\ strip(line)[1] = ";"

\* The text is comment lines followed by lines none of which is a comment,
\* with at least one of each.
HeaderThenData(text) ==
    LET ls == readlines(text)
    IN  \E h \in 1..(Len(ls) - 1) :
            /\ \A k \in 1..h : IsComment(ls[k])
            /\ \A k \in (h + 1)..Len(ls) : ~IsComment(ls[k])
            /\ \E k \in (h + 1)..Len(ls) : strip(ls[k]) # <<>>

\* The load of filename, taken from position at, finds no file and creates
\* the default one.
CreatesDefault(at, filename) ==
    (pc = at /\ fs[filename].status = "absent") =>
        /\ pc' = "prompt"
        /\ fs'[filename].status = "file"
        /\ HeaderThenData(fs'[filename].content)
        /\ file_data' = [k \in 1..Len(DefaultFields) |->
                            [item_name   |-> DefaultFields[k][1],
                             lower_index |-> DefaultFields[k][2],
                             upper_index |-> DefaultFields[k][3]]]
        /\ file_data' # <<>>
        /\ diag' = diag
        /\ notices' = notices
        /\ warned' = warned + 1

\* C6: when the file is missing and can be created, one load writes the
\* default file (header comments, then the default data lines), reads it
\* back and returns the default fields in file order without a diagnostic;
\* the caller sees no error.
C6_MissingFileCreated ==
    [][CreatesDefault("construct", csv_filename)
       /\ CreatesDefault("fallback", default_csv_filename)]_vars

\* The chosen file was missing and has been created and loaded.
C6_Witness ==
    /\ pc = "prompt"
    /\ csv_filename = CustomName
    /\ warned = 1
    /\ fs[CustomName].status = "file"
    /\ Len(file_data) = Len(DefaultFields)

\* The load of filename taken from position at raises an error to its
\* caller only in the file states of causes, and returns a list in every
\* other file state.
PropagatesOnly(at, filename, causes) ==
    pc = at =>
        /\ pc' \in {"fallback", "crashed"} <=> fs[filename].status \in causes
        /\ pc' = "prompt" <=> fs[filename].status \notin causes

\* C7 as stated: load_to_data_parts propagates an error only when the file
\* is missing and cannot be created, and returns a list in every other file
\* state.  (Fails: a file that exists and cannot be opened raises OSError.)
C7_OnlyCreationFailurePropagates ==
    [][PropagatesOnly("construct", csv_filename, {"nocreate"})
       /\ PropagatesOnly("fallback", default_csv_filename, {"nocreate"})]_vars

\* C7 as amended: load_to_data_parts propagates an error only when the file
\* is missing and cannot be created, or when the file cannot be opened for
\* reading; in every other file state it returns a list.
C7_OnlyFileErrorsPropagate ==
    [][PropagatesOnly("construct", csv_filename, {"nocreate", "unreadable"})
       /\ PropagatesOnly("fallback", default_csv_filename,
                         {"nocreate", "unreadable"})]_vars

\* The chosen file exists and could not be opened: the error reached main.
C7_Witness ==
    /\ pc = "fallback"
    /\ fs[csv_filename].status = "unreadable"

\* C8: the whitespace around each of the three tokens is trimmed: the name
\* of a loaded DataPart is the stripped name token and its indexes are the
\* integers of the stripped index tokens.  (Fails: whitespace between the
\* name and the first comma stays in the name.)
C8_TokensTrimmed ==
    Loaded =>
        LET acc == SelectSeq(LoadedLines, Converts)
        IN  /\ Len(file_data) = Len(acc)
            /\ \A k \in 1..Len(acc) :
                  LET t == split(acc[k], ",")
                      a == int(strip(t[2])).value
                      b == int(strip(t[3])).value
                  IN  /\ file_data[k].item_name = strip(t[1])
                      /\ file_data[k].lower_index = (IF a <= b THEN a ELSE b)
                      /\ file_data[k].upper_index = (IF a <= b THEN b ELSE a)

\* The stripped input is q, quit or exit in any letter case.
Sentinel(typed) ==
    \E w \in {<<"q">>, <<"q", "u", "i", "t">>, <<"e", "x", "i", "t">>} :
        /\ Len(typed) = Len(w)
        /\ \A k \in 1..Len(w) :
              \/ typed[k] = w[k]
              \/ \E j \in 1..Len(LowerSeq) : LowerSeq[j] = w[k] /\ UpperSeq[j] = typed[k]

\* One step of the program, seen from the main loop.
LoopStep ==
    /\ pc = "prompt" =>
            IF Sentinel(raw_data')
            THEN pc' = "done" /\ output' = output
            ELSE pc' = "display" /\ output' = output
    /\ pc = "display" =>
            /\ pc' = "prompt"
            /\ raw_data' = raw_data
            /\ output' = display_items(file_data, raw_data).printed
    /\ pc' = "done" => pc = "prompt"
    /\ pc # "done"

ReadOnlyStep ==
    pc \in {"prompt", "display", "done"} =>
        /\ file_data' = file_data
        /\ pc = "display" =>
              /\ Len(output') = Len(file_data) + 2
              /\ \A k \in 1..Len(file_data) :
                    output'[k + 1] = get_data_string(file_data[k], raw_data)

\* C10: after the load the field list is read-only: reading an input and
\* displaying it leave file_data unchanged, and what is displayed is the
\* get_data_string of each loaded DataPart on that input.
C10_FieldListReadOnly == [][ReadOnlyStep]_vars

\* A display of a non-empty field list has completed.
C10_Witness ==
    /\ pc = "prompt"
    /\ file_data # <<>>
    /\ Len(output) = Len(file_data) + 2

====
